---- MODULE Spec2Model ----
(***************************************************************************)
(* Model of FHIRNLPProcessor (src/part1/fhir_nlp_service.py): the entity   *)
(* extractor, the query builder and the paginated result fetcher.          *)
(***************************************************************************)
EXTENDS Integers, Sequences, FiniteSets, TLC

VARIABLES
    \* ---- the remote paginated collection (environment of the fetcher)
    chainLen,       \* number of pages linked one after the other by "next"
    loopTo,         \* 0: the last page has no "next"; else the page its "next" names
    lastSingle,     \* the last page is a single record, not a Bundle
    \* ---- fetch_real_fhir_data: arguments, locals, position, result
    pc,             \* "idle" | "loop" | "done"
    query,          \* the FHIRQuery argument, or NotYet
    max_pages,
    current_url,
    current_params,
    pages_fetched,
    all_resources,
    total_count,
    fhir_bundle,
    requests,       \* the requests issued so far, in order
    responses,      \* the bodies received so far, in order
    failedAt,       \* 0, or the number of the request that failed
    raised,         \* None, or the exception that request raised
    result,
    \* ---- extract_entities / build_fhir_query
    doc,            \* the annotated text: a sequence of tokens
    ents,           \* the annotator's named-entity spans
    entities,       \* extract_entities' result, or NotYet
    clock,          \* the year the system clock shows
    builds          \* the build_fhir_query calls made: the year read, the query

fetchVars == <<chainLen, loopTo, lastSingle, pc, query, max_pages, current_url,
               current_params, pages_fetched, all_resources, total_count,
               fhir_bundle, requests, responses, failedAt, raised, result>>
nlpVars == <<doc, ents, entities, clock, builds>>
vars == <<fetchVars, nlpVars>>

\* ------------------------------------------------------------------ bounds
MaxChain == 5
MaxMaxPages == 3
MaxEntries == 2
ReportedTotal == 7
MaxDocLen == 4
MaxCondLen == 3
MaxIntentLen == 3
MaxBuildLen == 4
MaxRangeLen == 5
SmallPageSize == 20
MaxBuilds == 2
MaxTicks == 1
BaseYear == 2024

None == "None"
\* A result not computed yet, and a local variable not assigned yet.
NotYet == [pending |-> TRUE]
Unbound == [unbound |-> TRUE]
IsBound(x) == "unbound" \notin DOMAIN x

Min(a, b) == IF a <= b THEN a ELSE b
Max(a, b) == IF a >= b THEN a ELSE b

\* ------------------------------------------------------------------ remote
\* The page a URL names. URLs are the page numbers 1..chainLen; BaseUrl is the
\* resource-collection URL, which serves page 1. The URL 0 stands for Python's
\* None (no URL).
BaseUrl == 1

NextOf(u) == IF u < chainLen THEN u + 1 ELSE loopTo

\* The link list of a Bundle page: a "self" link, then a "next" link if any.
LinksOf(u) ==
    <<[relation |-> "self", url |-> u]>> \o
    (IF NextOf(u) # 0 THEN <<[relation |-> "next", url |-> NextOf(u)]>> ELSE <<>>)

\* The entry lists a page may carry: up to MaxEntries entries, every second
\* one without a resource.
EntryShapes ==
    {[j \in 1..k |-> IF j % 2 = 0 THEN "nores" ELSE "res"] : k \in 0..MaxEntries}

EntriesOf(u, n, shape) ==
    [j \in 1..Len(shape) |->
        IF shape[j] = "res"
        THEN [fullUrl |-> j, resource |-> [page |-> u, req |-> n, idx |-> j]]
        ELSE [fullUrl |-> j]]

TotalChoices == {0, ReportedTotal}

\* The JSON body served for URL u as the n-th response; the Bundle reports a
\* total when hasTot.
Payload(u, n, shape, hasTot, tot) ==
    IF u = chainLen /\ lastSingle
    THEN [resourceType |-> "Patient", id |-> u]
    ELSE IF ~hasTot
         THEN [resourceType |-> "Bundle", entry |-> EntriesOf(u, n, shape),
               link |-> LinksOf(u)]
         ELSE [resourceType |-> "Bundle", entry |-> EntriesOf(u, n, shape),
               link |-> LinksOf(u), total |-> tot]

\* How a request can fail: session.get raising (transport, timeout),
\* raise_for_status raising, response.json() raising, or a body of an
\* unexpected shape making the processing raise.
RequestExceptions == {"ConnectionError", "Timeout", "HTTPError", "JSONDecodeError"}
OtherExceptions == {"AttributeError"}
Failures == RequestExceptions \cup OtherExceptions

\* --------------------------------------------------------------- annotator
\* A token of the annotated text: surface text, lemma, part-of-speech tag and
\* the tagger's numeric flag. The text was lower-cased before annotation
\* (line 84); doc.text is the tokens' texts joined by single spaces.
Tok(text, lemma, pos, num) ==
    [text |-> text, lemma |-> lemma, pos |-> pos, like_num |-> num]

Word(w, pos) == Tok(w, w, pos, FALSE)
Numeral(w) == Tok(w, w, "NUM", TRUE)

\* int(text) of line 182 on the digit literals of the vocabulary.
IntLiterals == ("0" :> 0) @@ ("5" :> 5) @@ ("50" :> 50)

\* The cue words that occur in a token's text as substrings (Python's
\* `word in context` and `phrase in query_text` are substring tests).
WordsIn(text) ==
    CASE text = "meaning" -> {"meaning", "mean"}
      [] text = "recover" -> {"recover", "over"}
      [] OTHER -> {text}

IsDigits(text) == text \in DOMAIN IntLiterals

\* Every sequence over S of length at most n.
SeqsUpTo(S, n) == UNION {[1..k -> S] : k \in 0..n}

Lemmas(d) == {d[i].lemma : i \in 1..Len(d)}

\* ------------------------------------------------------- numeric mentions
word_to_num ==
    ("one" :> 1) @@ ("two" :> 2) @@ ("three" :> 3) @@ ("four" :> 4) @@
    ("five" :> 5) @@ ("six" :> 6) @@ ("seven" :> 7) @@ ("eight" :> 8) @@
    ("nine" :> 9) @@ ("ten" :> 10) @@ ("twenty" :> 20) @@ ("thirty" :> 30) @@
    ("forty" :> 40) @@ ("fifty" :> 50) @@ ("sixty" :> 60) @@
    ("seventy" :> 70) @@ ("eighty" :> 80) @@ ("ninety" :> 90)

\* An Optional[int]: {} is None, {n} is the integer n.
NoValue == {}
Some(n) == {n}
ValueOf(v) == CHOOSE n \in v : TRUE
\* Python truthiness of an Optional[int]: None and 0 are false.
HasValue(v) == v # {} /\ ValueOf(v) # 0

_convert_to_number(text) ==
    IF IsDigits(text) THEN Some(IntLiterals[text])
    ELSE IF text \in DOMAIN word_to_num THEN Some(word_to_num[text])
    ELSE NoValue

\* The texts of the tokens around token i: two before, two after.
ContextOf(d, i) ==
    LET lo == Max(1, i - 2)
        hi == Min(Len(d), i + 2)
        Pick(j) == IF lo + j - 1 < i THEN lo + j - 1 ELSE lo + j
    IN [j \in 1..(hi - lo) |-> d[Pick(j)].text]

NumberPositions(d) == {i \in 1..Len(d) : d[i].like_num \/ d[i].pos = "NUM"}

\* The k-th smallest element of a set of integers.
RECURSIVE Nth(_, _)
Nth(S, k) ==
    LET m == CHOOSE x \in S : \A y \in S : x <= y
    IN IF k = 1 THEN m ELSE Nth(S \ {m}, k - 1)

_extract_numbers_with_context(d) ==
    LET P == NumberPositions(d)
    IN [k \in 1..Cardinality(P) |->
          LET i == Nth(P, k)
          IN [value |-> d[i].text,
              numeric_value |-> _convert_to_number(d[i].text),
              context |-> ContextOf(d, i),
              position |-> i - 1]]

\* ------------------------------------------------------------ age filters
\* `cue in context`, the context being its words joined by spaces: a one-word
\* cue occurs inside one word; a two-word cue ends one word and starts the next
\* (no word of the vocabularies merely ends or starts with a cue's word).
CueIn(cue, ctx) ==
    IF Len(cue) = 1
    THEN \E j \in 1..Len(ctx) : cue[1] \in WordsIn(ctx[j])
    ELSE \E j \in 1..(Len(ctx) - 1) : ctx[j] = cue[1] /\ ctx[j + 1] = cue[2]

GreaterCues == {<<"over">>, <<"above">>, <<"more", "than">>, <<"greater">>}
LessCues == {<<"under">>, <<"below">>, <<"less", "than">>, <<"younger">>}

ValueFilter(op, v, method) ==
    [operator |-> op, value |-> v, extraction_method |-> method]

\* The range filter of lines 278-283.
RangeFilter(a, b, method) ==
    [operator |-> "range", min |-> Min(a, b), max |-> Max(a, b),
     extraction_method |-> method]

\* The filters the context path appends for the k-th numeric mention.
ContextFilters(nums, k) ==
    LET info == nums[k]
        ctx == info.context
        others == {j \in 1..Len(nums) : j # k /\ HasValue(nums[j].numeric_value)}
    IN IF ~HasValue(info.numeric_value) THEN <<>>
       ELSE IF \E c \in GreaterCues : CueIn(c, ctx)
       THEN <<ValueFilter(">", ValueOf(info.numeric_value), "spacy_context")>>
       ELSE IF \E c \in LessCues : CueIn(c, ctx)
       THEN <<ValueFilter("<", ValueOf(info.numeric_value), "spacy_context")>>
       ELSE IF CueIn(<<"between">>, ctx) /\ others # {}
       THEN <<RangeFilter(ValueOf(info.numeric_value),
                          ValueOf(nums[Nth(others, 1)].numeric_value),
                          "spacy_context_range")>>
       ELSE <<>>

RECURSIVE ContextPath(_, _)
ContextPath(nums, k) ==
    IF k > Len(nums) THEN <<>>
    ELSE ContextFilters(nums, k) \o ContextPath(nums, k + 1)

age_patterns ==
    ("over" :> ">") @@ ("above" :> ">") @@ ("under" :> "<") @@
    ("below" :> "<") @@ ("exactly" :> "=") @@ ("between" :> "range")

AgeWords == {"over", "above", "under", "below", "exactly"}

\* re.search(r'(over|above|under|below|exactly)\s+(\d+)', doc.text): the
\* leftmost place where a word ending in one of the alternatives is followed
\* by a digit literal.
AgeMatches(d) ==
    {i \in 1..(Len(d) - 1) :
        /\ WordsIn(d[i].text) \cap AgeWords # {}
        /\ IsDigits(d[i + 1].text)}

\* re.search(r'between\s+(\d+)\s+and\s+(\d+)', doc.text).
RangeMatches(d) ==
    {i \in 1..(Len(d) - 3) :
        /\ d[i].text = "between"
        /\ IsDigits(d[i + 1].text)
        /\ d[i + 2].text = "and"
        /\ IsDigits(d[i + 3].text)}

\* The regex fallback of lines 288-305.
RegexFallback(d) ==
    LET am == AgeMatches(d)
        rm == RangeMatches(d)
        ai == Nth(am, 1)
        ri == Nth(rm, 1)
        word == CHOOSE w \in WordsIn(d[ai].text) \cap AgeWords : TRUE
    IN (IF am # {}
        THEN <<ValueFilter(age_patterns[word], IntLiterals[d[ai + 1].text],
                           "regex_fallback")>>
        ELSE <<>>) \o
       (IF rm # {}
        THEN <<[operator |-> "range",
                min |-> IntLiterals[d[ri + 1].text],
                max |-> IntLiterals[d[ri + 3].text],
                extraction_method |-> "regex_fallback"]>>
        ELSE <<>>)

_extract_age_filters_with_spacy(d, nums) ==
    LET age_filters == ContextPath(nums, 1)
    IN IF age_filters = <<>> THEN RegexFallback(d) ELSE age_filters

\* ------------------------------------------------------------- conditions
\* The dictionary of lines 62-70 in insertion order; a term is the list of
\* its words (condition.split()).
condition_mappings == <<
    [term |-> <<"diabetes">>, code |-> "44054006", display |-> "Diabetes mellitus"],
    [term |-> <<"diabetic">>, code |-> "44054006", display |-> "Diabetes mellitus"],
    [term |-> <<"hypertension">>, code |-> "38341003", display |-> "Hypertension"],
    [term |-> <<"heart", "disease">>, code |-> "56265001", display |-> "Heart disease"],
    [term |-> <<"asthma">>, code |-> "195967001", display |-> "Asthma"],
    [term |-> <<"depression">>, code |-> "35489007", display |-> "Depressive disorder"],
    [term |-> <<"cancer">>, code |-> "363346000",
     display |-> "Malignant neoplastic disease"] >>

ConditionMatch(m, method) ==
    [term |-> condition_mappings[m].term,
     code |-> condition_mappings[m].code,
     system |-> "http://snomed.info/sct",
     display |-> condition_mappings[m].display,
     extraction_method |-> method]

\* Whether dictionary entry m makes the inner loop of lines 202-226 append a
\* match for token i, and break.
EntryFires(d, i, m) ==
    LET words == condition_mappings[m].term
    IN IF Len(words) > 1
       THEN \A w \in 1..Len(words) : words[w] \in Lemmas(d)
       ELSE d[i].lemma = words[1] \/ d[i].text = words[1]

\* The matches the token loop appends for token i: the first entry that fires.
TokenConditions(d, i) ==
    LET firing == {m \in 1..Len(condition_mappings) : EntryFires(d, i, m)}
        m == Nth(firing, 1)
    IN IF firing = {} THEN <<>>
       ELSE <<ConditionMatch(m, IF Len(condition_mappings[m].term) > 1
                                THEN "spacy_lemma_multiword"
                                ELSE "spacy_lemma")>>

RECURSIVE TokenLoop(_, _)
TokenLoop(d, i) ==
    IF i > Len(d) THEN <<>> ELSE TokenConditions(d, i) \o TokenLoop(d, i + 1)

\* The named-entity pass of lines 229-238.
RECURSIVE EntityLoop(_, _)
EntityLoop(es, k) ==
    IF k > Len(es) THEN <<>>
    ELSE LET hit == {m \in 1..Len(condition_mappings) :
                        condition_mappings[m].term = es[k].text}
         IN (IF es[k].label \in {"DISEASE", "SYMPTOM"} /\ hit # {}
             THEN <<ConditionMatch(Nth(hit, 1), "spacy_ner")>>
             ELSE <<>>) \o EntityLoop(es, k + 1)

\* The list before duplicates are removed.
RawConditions(d, es) == TokenLoop(d, 1) \o EntityLoop(es, 1)

\* Mutant: the last match of a code is kept, not the first.
RECURSIVE KeepLast(_)
KeepLast(conds) ==
    IF conds = <<>> THEN <<>>
    ELSE LET rest == Tail(conds)
         IN IF \E j \in 1..Len(rest) : rest[j].code = Head(conds).code
            THEN KeepLast(rest)
            ELSE <<Head(conds)>> \o KeepLast(rest)

\* Lines 240-246: keep a match when its code was not seen before.
RECURSIVE RemoveDuplicatesFrom(_, _, _)
RemoveDuplicatesFrom(conds, k, seen) ==
    IF k > Len(conds) THEN <<>>
    ELSE IF conds[k].code \in seen
         THEN RemoveDuplicatesFrom(conds, k + 1, seen)
         ELSE <<conds[k]>> \o
              RemoveDuplicatesFrom(conds, k + 1, seen \cup {conds[k].code})

RemoveDuplicates(conds) == RemoveDuplicatesFrom(conds, 1, {})

_extract_conditions_with_spacy(d, es) == RemoveDuplicates(RawConditions(d, es))

\* ----------------------------------------------------------------- gender
male_indicators == {"male", "man", "men", "boy", "gentleman", "guy"}
female_indicators == {"female", "woman", "women", "girl", "lady", "gal"}

RECURSIVE GenderFrom(_, _)
GenderFrom(d, i) ==
    IF i > Len(d) THEN None
    ELSE IF d[i].lemma \in male_indicators \/ d[i].text \in male_indicators
         THEN "male"
    ELSE IF d[i].lemma \in female_indicators \/ d[i].text \in female_indicators
         THEN "female"
    ELSE GenderFrom(d, i + 1)

_extract_gender_with_spacy(d) == GenderFrom(d, 1)

\* ----------------------------------------------------------------- intent
search_verbs == {"show", "list", "find", "get", "display", "retrieve", "fetch"}
count_verbs == {"count", "number"}
aggregate_verbs == {"average", "mean", "median", "sum", "total"}
IntentKeywords == search_verbs \cup count_verbs \cup aggregate_verbs

\* `phrase in query_text`: a one-word phrase occurs inside one word, a
\* two-word phrase ends one word and starts the next.
PhraseIn(phrase, d) == CueIn(phrase, [i \in 1..Len(d) |-> d[i].text])

\* Lines 144-150.
PhraseFallback(d) ==
    IF \E p \in {<<"how", "many">>, <<"number", "of">>} : PhraseIn(p, d)
    THEN "count"
    ELSE IF \E p \in {<<"average">>, <<"mean">>, <<"median">>} : PhraseIn(p, d)
    THEN "aggregate"
    ELSE "search"

\* Mutant: the count branch without its test for the lemma "many".
RECURSIVE IntentScanNoMany(_, _)
IntentScanNoMany(d, i) ==
    IF i > Len(d) THEN PhraseFallback(d)
    ELSE IF d[i].pos = "VERB" \/ d[i].lemma \in IntentKeywords
         THEN IF d[i].lemma \in search_verbs THEN "search"
              ELSE IF d[i].lemma \in count_verbs THEN "count"
              ELSE IF d[i].lemma \in aggregate_verbs THEN "aggregate"
              ELSE IntentScanNoMany(d, i + 1)
         ELSE IntentScanNoMany(d, i + 1)

\* The token loop of lines 130-141, from token i on, then the fallback.
RECURSIVE IntentScan(_, _)
IntentScan(d, i) ==
    IF i > Len(d) THEN PhraseFallback(d)
    ELSE IF d[i].pos = "VERB" \/ d[i].lemma \in IntentKeywords
         THEN IF d[i].lemma \in search_verbs THEN "search"
              ELSE IF d[i].lemma \in count_verbs \/ "many" \in Lemmas(d)
              THEN "count"
              ELSE IF d[i].lemma \in aggregate_verbs THEN "aggregate"
              ELSE IntentScan(d, i + 1)
         ELSE IntentScan(d, i + 1)

_determine_intent_with_spacy(d) == IntentScan(d, 1)

\* -------------------------------------------------------- extract_entities
extract_entities(d, es) ==
    LET numbers_with_context == _extract_numbers_with_context(d)
        conditions == _extract_conditions_with_spacy(d, es)
    IN [conditions |-> conditions,
        age_filters |-> _extract_age_filters_with_spacy(d, numbers_with_context),
        gender |-> _extract_gender_with_spacy(d),
        intent |-> _determine_intent_with_spacy(d),
        resource_types |-> (IF conditions # <<>> THEN <<"Condition">> ELSE <<>>)
                           \o <<"Patient">>,
        extracted_numbers |-> numbers_with_context,
        extracted_entities |-> es]

\* ----------------------------------------------------------------- fetcher
_get_next_link(bundle) ==
    LET links == bundle.link
        idx == {i \in 1..Len(links) : links[i].relation = "next"}
    IN IF idx = {} THEN 0
       ELSE links[CHOOSE i \in idx : \A k \in idx : i <= k].url

\* Mutant: the fallback result without its error marker.
FallbackWithoutMarker ==
    [total |-> 0,
     resources |-> <<>>,
     bundle |-> [resourceType |-> "Bundle", type |-> "searchset", total |-> 0,
                 entry |-> <<>>]]

_generate_fallback_results ==
    [total |-> 0,
     resources |-> <<>>,
     bundle |-> [resourceType |-> "Bundle", type |-> "searchset", total |-> 0,
                 entry |-> <<>>],
     error |-> "Unable to fetch data from FHIR server. This is fallback data."]

\* Which exceptions the two except clauses of fetch_real_fhir_data catch.
Caught(exc) == exc \in RequestExceptions \/ exc \in OtherExceptions

PageResources(bundle) ==
    LET HasResource(e) == "resource" \in DOMAIN e
        kept == SelectSeq(bundle.entry, HasResource)
    IN [j \in 1..Len(kept) |-> kept[j].resource]

\* Python truthiness of an integer or of a URL (0 and None are false).
Truthy(x) == x # 0

FinalResult(tc, res, bundle, pf) ==
    [total |-> IF Truthy(tc) THEN tc ELSE Len(res),
     resources |-> res,
     bundle |-> bundle,
     pages_fetched |-> pf + 1]

\* Mutant: the wrapped bundle entry is returned in place of the record.
SingleResultWrapped(body) ==
    [total |-> 1,
     resources |-> <<[resource |-> body]>>,
     bundle |-> [resourceType |-> "Bundle", entry |-> <<[resource |-> body]>>]]

SingleResult(body) ==
    [total |-> 1,
     resources |-> <<body>>,
     bundle |-> [resourceType |-> "Bundle", entry |-> <<[resource |-> body]>>]]

InitRemote ==
    /\ chainLen \in 1..MaxChain
    /\ loopTo \in {0, 1, chainLen}
    /\ lastSingle \in BOOLEAN
    /\ lastSingle => loopTo = 0

InitFetchLocals ==
    /\ pc = "idle"
    /\ query = NotYet
    /\ max_pages = 0
    /\ current_url = 0
    /\ current_params = None
    /\ pages_fetched = 0
    /\ all_resources = <<>>
    /\ total_count = 0
    /\ fhir_bundle = Unbound
    /\ requests = <<>>
    /\ responses = <<>>
    /\ failedAt = 0
    /\ raised = None
    /\ result = NotYet

InitNlpIdle ==
    /\ doc = <<>>
    /\ ents = <<>>
    /\ entities = NotYet
    /\ clock = BaseYear
    /\ builds = <<>>

Init == InitRemote /\ InitFetchLocals /\ InitNlpIdle

\* The FHIRQuery of lines 22-27.
FHIRQuery(parameters, include, count) ==
    [resource_type |-> "Patient", parameters |-> parameters,
     _include |-> include, _count |-> count]

\* Queries of the shape build_fhir_query returns (lines 375-380), and the same
\* with a page-size hint under the cap and with none (0 stands for None).
Queries ==
    LET plain == <<>>
        full == ("_has:Condition:subject:code" :> <<"195967001">>) @@
                ("birthdate" :> <<"le", BaseYear - 50, "-12-31">>) @@
                ("gender" :> "female")
    IN {FHIRQuery(plain, <<>>, 100),
        FHIRQuery(full, <<"Condition:subject">>, 100),
        FHIRQuery(full, <<"Condition:subject">>, SmallPageSize),
        FHIRQuery(plain, <<>>, 0)}

PageSizeCap == 50

\* Mutant: the page-size hint is passed on without the cap.
FetchParamsUncapped(q) ==
    (IF q._count # 0 THEN ("_count" :> q._count) ELSE <<>>) @@
    (IF q._include # <<>> THEN ("_include" :> q._include) ELSE <<>>) @@
    q.parameters

\* The params dict of lines 421-438: the query's parameters, then the
\* _include list, then the capped _count; a later assignment replaces an
\* earlier one of the same key.
FetchParams(q) ==
    (IF q._count # 0 THEN ("_count" :> Min(q._count, PageSizeCap)) ELSE <<>>) @@
    (IF q._include # <<>>
     THEN ("_include" :> (IF "_include" \in DOMAIN q.parameters
                          THEN q.parameters["_include"] ELSE <<>>) \o q._include)
     ELSE <<>>) @@
    q.parameters

\* fetch_real_fhir_data is called: lines 420-445.
FetchStart ==
    /\ pc = "idle"
    /\ \E mp \in 0..MaxMaxPages : max_pages' = mp
    /\ \E q \in Queries :
        /\ query' = q
        /\ current_params' = FetchParams(q)
    /\ current_url' = BaseUrl
    /\ pages_fetched' = 0
    /\ all_resources' = <<>>
    /\ total_count' = 0
    /\ pc' = "loop"
    /\ UNCHANGED <<chainLen, loopTo, lastSingle, fhir_bundle, requests, responses,
                   failedAt, raised, result, nlpVars>>

\* Mutant: the page bound is off by one.
LoopConditionInclusive == Truthy(current_url) /\ pages_fetched <= max_pages

LoopCondition == Truthy(current_url) /\ pages_fetched < max_pages

\* session.get of lines 451-456: only the first request carries params.
TheRequest == [url |-> current_url,
               params |-> IF pages_fetched = 0 THEN current_params ELSE <<>>]

\* One iteration of the while loop whose request fails: the exception leaves
\* the loop and an except clause returns the fallback result.
RequestFails ==
    /\ pc = "loop"
    /\ LoopCondition
    /\ \E exc \in Failures :
        /\ Caught(exc)
        /\ requests' = Append(requests, TheRequest)
        /\ failedAt' = Len(requests) + 1
        /\ raised' = exc
        /\ result' = _generate_fallback_results
        /\ pc' = "done"
    /\ UNCHANGED <<chainLen, loopTo, lastSingle, query, max_pages, current_url,
                   current_params, pages_fetched, all_resources, total_count,
                   fhir_bundle, responses, nlpVars>>

\* One iteration whose response is a single record: lines 460-466.
RequestSingle ==
    /\ pc = "loop"
    /\ LoopCondition
    /\ LET body == Payload(current_url, Len(requests) + 1, <<>>, FALSE, 0)
       IN /\ body.resourceType # "Bundle"
          /\ requests' = Append(requests, TheRequest)
          /\ fhir_bundle' = body
          /\ responses' = Append(responses, body)
          /\ result' = SingleResult(body)
          /\ pc' = "done"
    /\ UNCHANGED <<chainLen, loopTo, lastSingle, query, max_pages, current_url,
                   current_params, pages_fetched, all_resources, total_count,
                   failedAt, raised, nlpVars>>

\* One iteration whose response is a Bundle page: lines 468-485, and the
\* return of lines 488-493 when the page has no next link.
RequestBundle ==
    /\ pc = "loop"
    /\ LoopCondition
    /\ \E shape \in EntryShapes, hasTot \in BOOLEAN, tot \in TotalChoices :
        LET body == Payload(current_url, Len(requests) + 1, shape, hasTot, tot)
            res == all_resources \o PageResources(body)
            tc == IF "total" \in DOMAIN body THEN body.total ELSE total_count
            next_url == _get_next_link(body)
        IN /\ body.resourceType = "Bundle"
           /\ requests' = Append(requests, TheRequest)
           /\ fhir_bundle' = body
           /\ responses' = Append(responses, body)
           /\ all_resources' = res
           /\ total_count' = tc
           /\ IF Truthy(next_url)
              THEN /\ current_url' = next_url
                   /\ current_params' = <<>>
                   /\ pages_fetched' = pages_fetched + 1
                   /\ UNCHANGED <<pc, result>>
              ELSE /\ result' = FinalResult(tc, res, body, pages_fetched)
                   /\ pc' = "done"
                   /\ UNCHANGED <<current_url, current_params, pages_fetched>>
    /\ UNCHANGED <<chainLen, loopTo, lastSingle, query, max_pages, failedAt, raised,
                   nlpVars>>

\* The while condition is false: the return of lines 488-493. When no
\* iteration ran, fhir_bundle is unbound there and the read raises
\* UnboundLocalError, which the except Exception clause turns into the
\* fallback result.
LoopExit ==
    /\ pc = "loop"
    /\ ~LoopCondition
    /\ result' = IF ~IsBound(fhir_bundle)
                 THEN _generate_fallback_results
                 ELSE FinalResult(total_count, all_resources, fhir_bundle,
                                  pages_fetched)
    /\ pc' = "done"
    /\ UNCHANGED <<chainLen, loopTo, lastSingle, query, max_pages, current_url,
                   current_params, pages_fetched, all_resources, total_count,
                   fhir_bundle, requests, responses, failedAt, raised, nlpVars>>

Next == FetchStart \/ RequestFails \/ RequestSingle \/ RequestBundle \/ LoopExit

Spec == Init /\ [][Next]_vars

\* ----------------------------------------------------------- query builder
EmptyDict == <<>>

\* Mutant: the bounds of the greater-than and less-than filters exchanged.
BirthdateSwapped(age_filter, current_year) ==
    IF age_filter.operator = ">"
    THEN ("birthdate" :> <<"ge", current_year - age_filter.value, "-01-01">>)
    ELSE IF age_filter.operator = "<"
    THEN ("birthdate" :> <<"le", current_year - age_filter.value, "-12-31">>)
    ELSE IF age_filter.operator = "range"
    THEN ("birthdate" :> <<"ge", current_year - age_filter.min, "-01-01",
                           "&birthdate=", "le", current_year - age_filter.max,
                           "-12-31">>)
    ELSE EmptyDict

\* The birthdate entry of lines 357-370 and 392-404: the f-string is the list
\* of its pieces, the year formatted in decimal.
Birthdate(age_filter, current_year) ==
    IF age_filter.operator = ">"
    THEN ("birthdate" :> <<"le", current_year - age_filter.value, "-12-31">>)
    ELSE IF age_filter.operator = "<"
    THEN ("birthdate" :> <<"ge", current_year - age_filter.value, "-01-01">>)
    ELSE IF age_filter.operator = "range"
    THEN ("birthdate" :> <<"ge", current_year - age_filter.max, "-01-01",
                           "&birthdate=", "le", current_year - age_filter.min,
                           "-12-31">>)
    ELSE EmptyDict

\* ",".join(codes): the list of the codes.
ConditionCodes(conditions) == [j \in 1..Len(conditions) |-> conditions[j].code]

Parameters(e, current_year) ==
    (IF e.conditions # <<>>
     THEN ("_has:Condition:subject:code" :> ConditionCodes(e.conditions))
     ELSE EmptyDict) @@
    (IF e.age_filters # <<>>
     THEN Birthdate(e.age_filters[1], current_year)
     ELSE EmptyDict) @@
    (IF e.gender # None THEN ("gender" :> e.gender) ELSE EmptyDict)

\* build_fhir_query; current_year is datetime.now().year, read at the call.
build_fhir_query(e, current_year) ==
    IF e.intent = "count"
    THEN [resource_type |-> "Patient",
          parameters |-> Parameters(e, current_year),
          _include |-> IF e.conditions # <<>> THEN <<"Condition:subject">> ELSE <<>>,
          _count |-> 100]
    ELSE [resource_type |-> "Patient",
          parameters |-> Parameters(e, current_year),
          _include |-> IF e.conditions # <<>> THEN <<"Condition:subject">> ELSE <<>>,
          _count |-> 100]

\* ------------------------------------------------- extraction and building
IsPending(x) == "pending" \in DOMAIN x

\* extract_entities(query) on the annotated text.
Extract ==
    /\ IsPending(entities)
    /\ entities' = extract_entities(doc, ents)
    /\ UNCHANGED <<fetchVars, doc, ents, clock, builds>>

\* build_fhir_query(entities), reading the year off the system clock.
Build ==
    /\ ~IsPending(entities)
    /\ Len(builds) < MaxBuilds
    /\ builds' = Append(builds, [year |-> clock,
                                 query |-> build_fhir_query(entities, clock)])
    /\ UNCHANGED <<fetchVars, doc, ents, entities, clock>>

\* The system clock passes into the next year.
Tick ==
    /\ clock < BaseYear + MaxTicks
    /\ clock' = clock + 1
    /\ UNCHANGED <<fetchVars, doc, ents, entities, builds>>

InitFetchIdle ==
    /\ chainLen = 1 /\ loopTo = 0 /\ lastSingle = FALSE
    /\ InitFetchLocals

InitText(vocab, n, entVocab) ==
    /\ doc \in SeqsUpTo(vocab, n)
    /\ ents \in SeqsUpTo(entVocab, 1)
    /\ entities = NotYet
    /\ clock = BaseYear
    /\ builds = <<>>

\* Texts about ages.
AgeVocab == {Word("between", "ADP"), Word("and", "CCONJ"), Word("over", "ADP"),
             Word("exactly", "ADV"), Numeral("0"), Numeral("5"), Numeral("50"),
             Numeral("fifty")}

InitAge == InitFetchIdle /\ InitText(AgeVocab, MaxDocLen, {})
NextAge == Extract
SpecAge == InitAge /\ [][NextAge]_vars

\* Texts with a range and further numeric mentions.
RangeVocab == {Word("between", "ADP"), Word("and", "CCONJ"), Numeral("5"),
               Numeral("50"), Numeral("sixty")}

InitRange == InitFetchIdle /\ InitText(RangeVocab, MaxRangeLen, {})
NextRange == Extract
SpecRange == InitRange /\ [][NextRange]_vars

\* Texts the query builder is fed with.
BuildVocab == {Word("between", "ADP"), Word("and", "CCONJ"), Word("over", "ADP"),
               Word("under", "ADP"), Word("exactly", "ADV"), Word("count", "VERB"),
               Numeral("0"), Numeral("5"), Numeral("50")}

InitBuild == InitFetchIdle /\ InitText(BuildVocab, MaxBuildLen, {})
NextBuild == Extract \/ Build \/ Tick
SpecBuild == InitBuild /\ [][NextBuild]_vars

\* Texts naming conditions.
CondVocab == {Word("diabetic", "ADJ"), Word("diabetes", "NOUN"),
              Word("asthma", "NOUN"), Word("heart", "NOUN"),
              Word("disease", "NOUN"), Tok("patients", "patient", "NOUN", FALSE)}
EntVocab == {[text |-> <<"asthma">>, label |-> "DISEASE"],
             [text |-> <<"diabetes">>, label |-> "SYMPTOM"],
             [text |-> <<"asthma">>, label |-> "ORG"]}

InitCond == InitFetchIdle /\ InitText(CondVocab, MaxCondLen, EntVocab)
NextCond == Extract
SpecCond == InitCond /\ [][NextCond]_vars

\* Texts asking for something.
IntentVocab == {Word("show", "VERB"), Word("have", "VERB"), Word("how", "SCONJ"),
                Word("many", "ADJ"), Word("average", "ADJ"),
                Word("count", "NOUN"), Word("meaning", "NOUN"),
                Tok("patients", "patient", "NOUN", FALSE)}

InitIntent == InitFetchIdle /\ InitText(IntentVocab, MaxIntentLen, {})
NextIntent == Extract
SpecIntent == InitIntent /\ [][NextIntent]_vars

\* ------------------------------------------------------- extraction claims
AgeFilters == entities.age_filters

\* C3: for a text containing "between A and B", A and B digit literals, every
\* range filter the age-filter extraction produced has min = min(A,B) and
\* max = max(A,B).
C3_RangeOrdered ==
    ~IsPending(entities) =>
        \A i \in RangeMatches(doc) :
            LET A == IntLiterals[doc[i + 1].text]
                B == IntLiterals[doc[i + 3].text]
            IN \A k \in 1..Len(AgeFilters) :
                  AgeFilters[k].operator = "range" =>
                      /\ AgeFilters[k].min = Min(A, B)
                      /\ AgeFilters[k].max = Max(A, B)

\* The numeric mentions that take the "between" branch of the context path:
\* a resolved value, no greater-than or less-than cue, "between" in the window.
BetweenMentions(nums) ==
    {k \in 1..Len(nums) :
        /\ HasValue(nums[k].numeric_value)
        /\ ~\E c \in GreaterCues \cup LessCues : CueIn(c, nums[k].context)
        /\ CueIn(<<"between">>, nums[k].context)}

\* The resolved numeric mentions that follow mention k in the text.
ResolvedAfter(nums, k) ==
    {j \in (k + 1)..Len(nums) : HasValue(nums[j].numeric_value)}

\* C11: for every numeric mention that has a resolved value and "between" in
\* its context window, and is followed by a resolved numeric mention, the age
\* filters hold the range formed from it and the next such mention, also when
\* another resolved numeric mention precedes it.
C11_RangeWithNext ==
    ~IsPending(entities) =>
        LET nums == entities.extracted_numbers
        IN \A k \in BetweenMentions(nums) :
              ResolvedAfter(nums, k) # {} =>
                  \E a \in 1..Len(AgeFilters) :
                      AgeFilters[a] =
                          RangeFilter(ValueOf(nums[k].numeric_value),
                                      ValueOf(nums[Nth(ResolvedAfter(nums, k), 1)]
                                                  .numeric_value),
                                      "spacy_context_range")

\* The first position of a code in a list of matches.
FirstOf(conds, code) ==
    CHOOSE j \in 1..Len(conds) :
        /\ conds[j].code = code
        /\ \A k \in 1..(j - 1) : conds[k].code # code

\* C7: the condition list holds no two matches with the same code, holds one
\* match for every code found, each the first match found with its code, in
\* the order in which the codes were first found.
C7_ConditionDedup ==
    ~IsPending(entities) =>
        LET raw == RawConditions(doc, ents)
            out == entities.conditions
        IN /\ \A a, b \in 1..Len(out) : a # b => out[a].code # out[b].code
           /\ \A j \in 1..Len(raw) : \E a \in 1..Len(out) : out[a].code = raw[j].code
           /\ \A a \in 1..Len(out) :
                 /\ \E j \in 1..Len(raw) : raw[j].code = out[a].code
                 /\ out[a] = raw[FirstOf(raw, out[a].code)]
           /\ \A a, b \in 1..Len(out) :
                 a < b => FirstOf(raw, out[a].code) < FirstOf(raw, out[b].code)

\* C7 witness: "diabetic patients diabetes" gave one match, the first found.
C7_Witness ==
    /\ ~IsPending(entities)
    /\ Len(doc) = 3 /\ doc[1].text = "diabetic" /\ doc[3].text = "diabetes"
    /\ Len(RawConditions(doc, ents)) >= 2
    /\ Len(entities.conditions) = 1
    /\ entities.conditions[1].code = "44054006"
    /\ entities.conditions[1].term = <<"diabetic">>

\* C9: for every single-word dictionary term, a token whose lemma or surface
\* text is the term puts a match with the term's code in the condition list.
C9_SingleWordComplete ==
    ~IsPending(entities) =>
        \A i \in 1..Len(doc), m \in 1..Len(condition_mappings) :
            LET term == condition_mappings[m].term
            IN (Len(term) = 1 /\ (doc[i].lemma = term[1] \/ doc[i].text = term[1]))
               => \E a \in 1..Len(entities.conditions) :
                     entities.conditions[a].code = condition_mappings[m].code

\* The intent a keyword lemma stands for.
KeywordIntent(lemma) ==
    IF lemma \in search_verbs THEN "search"
    ELSE IF lemma \in count_verbs THEN "count"
    ELSE "aggregate"

KeywordPositions(d) == {i \in 1..Len(d) : d[i].lemma \in IntentKeywords}
TriggerPositions(d) ==
    {i \in 1..Len(d) : d[i].pos = "VERB" \/ d[i].lemma \in IntentKeywords}
HasFixedPhrase(d) ==
    \E p \in {<<"how", "many">>, <<"number", "of">>, <<"average">>, <<"mean">>,
              <<"median">>} : PhraseIn(p, d)

\* C10 as stated: the first token with a keyword lemma determines the intent,
\* as the set of that lemma; no keyword lemma and no fixed phrase give "search".
C10_FirstKeywordDecides ==
    ~IsPending(entities) =>
        LET K == KeywordPositions(doc)
        IN /\ K # {} => entities.intent = KeywordIntent(doc[Nth(K, 1)].lemma)
           /\ (K = {} /\ ~HasFixedPhrase(doc)) => entities.intent = "search"

\* C10 amended: when no token has the lemma "many", the first token with a
\* keyword lemma determines the intent, as the set of that lemma, and a text
\* with no keyword lemma and no fixed phrase gets "search". When some token
\* has the lemma "many", the first token that is a verb or has a keyword lemma
\* determines it: "search" for a search-verb, "count" for anything else; with
\* no such token and no fixed phrase the intent is "search".
C10_IntentWithMany ==
    ~IsPending(entities) =>
        LET K == KeywordPositions(doc)
            T == TriggerPositions(doc)
        IN IF "many" \notin Lemmas(doc)
           THEN /\ K # {} => entities.intent = KeywordIntent(doc[Nth(K, 1)].lemma)
                /\ (K = {} /\ ~HasFixedPhrase(doc)) => entities.intent = "search"
           ELSE /\ T # {} =>
                     entities.intent =
                        IF doc[Nth(T, 1)].lemma \in search_verbs
                        THEN "search" ELSE "count"
                /\ (T = {} /\ ~HasFixedPhrase(doc)) => entities.intent = "search"

\* C10 witness: the first keyword lemma is the aggregate-verb "average", a
\* later token has the lemma "many", and the intent is "count".
C10_Witness ==
    /\ ~IsPending(entities)
    /\ KeywordPositions(doc) # {}
    /\ doc[Nth(KeywordPositions(doc), 1)].lemma = "average"
    /\ "many" \in Lemmas(doc)
    /\ entities.intent = "count"

\* ------------------------------------------------------ the builder's claims
BirthdateOf(b) == b.query.parameters["birthdate"]
HasBirthdate(b) == "birthdate" \in DOMAIN b.query.parameters

\* C4: two builds of the same entities return the same birth-date parameter,
\* whatever year the system clock shows at each.
C4_ReferenceYearInjected ==
    \A i, j \in 1..Len(builds) :
        /\ HasBirthdate(builds[i]) <=> HasBirthdate(builds[j])
        /\ HasBirthdate(builds[i]) => BirthdateOf(builds[i]) = BirthdateOf(builds[j])

\* C5: with Y the reference year of a build and the first age filter of the
\* entities: greater-than(A) gives "le" (Y-A) "-12-31", less-than(A) gives
\* "ge" (Y-A) "-01-01", range(min,max) gives "ge" (Y-max) "-01-01" together
\* with "le" (Y-min) "-12-31"; in the count branch and in the search branch.
C5_BirthdateEncoding ==
    \A i \in 1..Len(builds) :
        AgeFilters # <<>> =>
            LET f == AgeFilters[1]
                Y == builds[i].year
            IN /\ f.operator = ">" =>
                    /\ HasBirthdate(builds[i])
                    /\ BirthdateOf(builds[i]) = <<"le", Y - f.value, "-12-31">>
               /\ f.operator = "<" =>
                    /\ HasBirthdate(builds[i])
                    /\ BirthdateOf(builds[i]) = <<"ge", Y - f.value, "-01-01">>
               /\ f.operator = "range" =>
                    /\ HasBirthdate(builds[i])
                    /\ BirthdateOf(builds[i]) =
                          <<"ge", Y - f.max, "-01-01", "&birthdate=",
                            "le", Y - f.min, "-12-31">>

\* C5 witness: greater-than(50) built in 2024 gave the upper bound 1974-12-31.
C5_Witness ==
    /\ Len(builds) >= 1
    /\ AgeFilters # <<>>
    /\ AgeFilters[1].operator = ">" /\ AgeFilters[1].value = 50
    /\ builds[1].year = 2024
    /\ BirthdateOf(builds[1]) = <<"le", 1974, "-12-31">>

\* C6: a build puts a birth-date parameter in the query if and only if the
\* age-filter list is not empty, and derives it from the first filter.
C6_AgeFilterEncoded ==
    \A i \in 1..Len(builds) :
        /\ HasBirthdate(builds[i]) <=> AgeFilters # <<>>
        /\ HasBirthdate(builds[i]) =>
              ("birthdate" :> BirthdateOf(builds[i])) =
                 Birthdate(AgeFilters[1], builds[i].year)

\* ------------------------------------------------------------ fetch claims
\* The number of requests a fetch over the remote chain may issue: the chain's
\* length, the number of pages reached by following "next" links from the
\* first page, which has no end when the links cycle.
RequestBound == IF loopTo = 0 THEN Min(max_pages, chainLen) ELSE max_pages

\* C1: with max_pages >= 1 and no failing request, a fetch over a chain of L
\* pages never issues more than min(max_pages, L) requests, has issued exactly
\* that many when it returns, and returns a result without the error marker.
C1_PaginationBound ==
    (max_pages >= 1 /\ failedAt = 0) =>
        /\ Len(requests) <= RequestBound
        /\ pc = "done" =>
            /\ Len(requests) = RequestBound
            /\ "error" \notin DOMAIN result

\* C1 witness: max_pages = 3 over 5 linked pages returned after 3 requests.
C1_Witness ==
    /\ pc = "done" /\ failedAt = 0
    /\ max_pages = 3 /\ chainLen = 5 /\ loopTo = 0 /\ ~lastSingle
    /\ Len(requests) = 3
    /\ "error" \notin DOMAIN result

\* C2: when the request for page k fails (transport error, timeout,
\* non-success status, malformed payload), the fetch has returned, without
\* raising, the fallback result (total 0, no records, error marker), and
\* request k is the last request issued: no later request, no retry.
C2_FetchFallback ==
    failedAt # 0 =>
        /\ pc = "done"
        /\ raised \in Failures
        /\ result.total = 0
        /\ result.resources = <<>>
        /\ "error" \in DOMAIN result
        /\ Len(requests) = failedAt

\* C2 witness: the second request failed after the first page's records had
\* been accumulated.
C2_Witness ==
    /\ failedAt = 2 /\ pc = "done"
    /\ all_resources # <<>>
    /\ raised = "Timeout"
    /\ result.resources = <<>>

\* C8: when a response is a JSON object that is not a Bundle, the fetch has
\* returned with total 1, that one record as its record sequence and no error
\* marker, and that response's request is the last one issued.
C8_SingleRecord ==
    (IsBound(fhir_bundle) /\ fhir_bundle.resourceType # "Bundle") =>
        /\ pc = "done"
        /\ failedAt = 0
        /\ result.total = 1
        /\ result.resources = <<fhir_bundle>>
        /\ "error" \notin DOMAIN result
        /\ Len(requests) = chainLen
        /\ requests[Len(requests)].url = fhir_bundle.id

\* C8 witness: a single record served as the third response, after two pages
\* whose records had been accumulated.
C8_Witness ==
    /\ pc = "done"
    /\ IsBound(fhir_bundle) /\ fhir_bundle.resourceType = "Patient"
    /\ Len(requests) = 3
    /\ Len(all_resources) >= 2
    /\ result.total = 1

\* What C12 says of the requests issued so far.
RequestsAsSpecified ==
    \A i \in 1..Len(requests) :
        IF i = 1
        THEN /\ requests[i].url = BaseUrl
             /\ \A key \in DOMAIN query.parameters :
                   /\ key \in DOMAIN requests[i].params
                   /\ requests[i].params[key] = query.parameters[key]
             /\ IF query._include # <<>>
                THEN /\ "_include" \in DOMAIN requests[i].params
                     /\ requests[i].params["_include"] = query._include
                ELSE "_include" \notin DOMAIN requests[i].params
             /\ IF query._count # 0
                THEN /\ "_count" \in DOMAIN requests[i].params
                     /\ requests[i].params["_count"] = Min(query._count, 50)
                ELSE "_count" \notin DOMAIN requests[i].params
        ELSE /\ requests[i].url = NextOf(requests[i - 1].url)
             /\ requests[i].url # 0
             /\ DOMAIN requests[i].params = {}

RECURSIVE RecordsOf(_, _)
RecordsOf(pages, i) ==
    IF i > Len(pages) THEN <<>>
    ELSE LET entry == pages[i].entry
             WithResource(e) == "resource" \in DOMAIN e
             kept == SelectSeq(entry, WithResource)
         IN [j \in 1..Len(kept) |-> kept[j].resource] \o RecordsOf(pages, i + 1)

\* The pages that reported a total.
Reporting(pages) == {i \in 1..Len(pages) : "total" \in DOMAIN pages[i]}
LastReporting(pages) ==
    CHOOSE i \in Reporting(pages) : \A k \in Reporting(pages) : k <= i

\* A fetch that returned without failure after one or more Bundle pages.
EndedOnPages ==
    /\ pc = "done" /\ failedAt = 0
    /\ responses # <<>>
    /\ \A i \in 1..Len(responses) : responses[i].resourceType = "Bundle"

\* C13: a fetch that ends without failure on collection pages returns the
\* records of every page fetched, in arrival order, and as total the total of
\* the most recent page that reported one, be it 0, or the number of records
\* when no page reported a total.
C13_Aggregation ==
    EndedOnPages =>
        /\ result.resources = RecordsOf(responses, 1)
        /\ result.total =
              IF Reporting(responses) # {}
              THEN responses[LastReporting(responses)].total
              ELSE Len(result.resources)

\* C14: a fetch that returns a non-error result over collection pages reports
\* as pages_fetched the number of requests it issued, whether it stopped on a
\* page without a "next" link or on max_pages with a "next" link present.
C14_PagesFetchedIsRequests ==
    (EndedOnPages /\ "error" \notin DOMAIN result) =>
        result.pages_fetched = Len(requests)

\* C15: for every max_pages >= 0 a fetch in which nothing fails returns a
\* result without the error marker, with max_pages = 0 no request is issued
\* and the result is not the error fallback, and every result carrying the
\* error marker has total 0 and no records.
C15_ErrorOnlyOnFailure ==
    pc = "done" =>
        /\ failedAt = 0 => "error" \notin DOMAIN result
        /\ max_pages = 0 =>
              requests = <<>> /\ result # _generate_fallback_results
        /\ "error" \in DOMAIN result =>
              result.total = 0 /\ result.resources = <<>>

====
